---- MODULE Spec2Model ----
(***************************************************************************)
(* Change-point detection on per-word z-score time series                  *)
(* (semantic_change_detection_methods/time_series_analysis.py).            *)
(*                                                                         *)
(* Numbers.  A Python float is modelled as an exact rational <<n, d>> in   *)
(* lowest terms with d > 0, or as NaN == <<0, 0>>.  Python's None is the   *)
(* empty tuple.  Arithmetic and comparisons follow IEEE semantics for NaN  *)
(* (every ordered comparison with NaN is false, NaN is truthy); rounding   *)
(* error of binary floating point is not modelled.                         *)
(***************************************************************************)
EXTENDS Integers, Sequences, FiniteSets, Bags, TLC

\* ------------------------------------------------------------------ bounds
MaxLen == 3          \* longest z-score series handed to the detector
MaxSamples == 2      \* largest n_samples drawn for the randomised runs
MaxSnapshots == 5    \* largest number of embedding snapshots (model_paths)
MaxNBest == 3        \* largest n_best
MaxWords == 2        \* size of the vocabulary of the per-word loop

\* ------------------------------------------------------------ float model
None == << >>
NaN == <<0, 0>>

Abs(x) == IF x < 0 THEN -x ELSE x

RECURSIVE Gcd(_, _)
Gcd(a, b) == IF b = 0 THEN a ELSE Gcd(b, a % b)

\* n / d as a float; 0/0 (numpy: RuntimeWarning, result nan) is NaN.  The
\* model never divides a non-zero number by zero.
Rat(n, d) ==
  IF d = 0 THEN NaN
  ELSE LET g == Gcd(Abs(n), Abs(d))
           s == IF d < 0 THEN -1 ELSE 1
       IN  <<(s * n) \div g, (s * d) \div g>>

Zero == Rat(0, 1)
One == Rat(1, 1)

IsNone(v) == v = None
IsNaN(v) == v = NaN

Add(a, b) == IF IsNaN(a) \/ IsNaN(b) THEN NaN
             ELSE Rat(a[1] * b[2] + b[1] * a[2], a[2] * b[2])
Neg(a) == IF IsNaN(a) THEN NaN ELSE <<-a[1], a[2]>>
Sub(a, b) == Add(a, Neg(b))
Lt(a, b) == ~IsNaN(a) /\ ~IsNaN(b) /\ a[1] * b[2] < b[1] * a[2]
Gt(a, b) == Lt(b, a)
FloatEq(a, b) == ~IsNaN(a) /\ ~IsNaN(b) /\ a = b
Geq(a, b) == Gt(a, b) \/ FloatEq(a, b)

\* Python truthiness of a series entry, as used by "if i" / "if z[i]":
\* None and 0.0 are falsy, every other float (NaN included) is truthy.
Truthy(v) == ~IsNone(v) /\ v # Zero

\* ---------------------------------------------------------- mean shift
RECURSIVE SumSeq(_)
SumSeq(s) == IF Len(s) = 0 THEN Zero ELSE Add(Head(s), SumSeq(Tail(s)))

\* np.mean of a list of floats; the mean of an empty list is nan.
np_mean(s) == IF Len(s) = 0 THEN NaN
              ELSE LET t == SumSeq(s)
                   IN  IF IsNaN(t) THEN NaN ELSE Rat(t[1], t[2] * Len(s))

\* [i for i in xs if i]
TruthyOnly(xs) == SelectSeq(xs, Truthy)

\* compute_mean_shift with the sign convention of the two policies exchanged.
compute_mean_shift_swapped(time_series, j, policy) ==
  LET after == np_mean(TruthyOnly(SubSeq(time_series, j + 2, Len(time_series))))
      upto == np_mean(TruthyOnly(SubSeq(time_series, 1, j + 1)))
  IN  IF policy = "first" THEN Sub(upto, after) ELSE Sub(after, upto)

\* compute_mean_shift(time_series, j, compare_to), j counted from 0.
compute_mean_shift(time_series, j, policy) ==
  LET after == np_mean(TruthyOnly(SubSeq(time_series, j + 2, Len(time_series))))
      upto == np_mean(TruthyOnly(SubSeq(time_series, 1, j + 1)))
  IN  IF policy = "first" THEN Sub(after, upto) ELSE Sub(upto, after)

\* get_mean_shift_series: one entry per j in range(len(time_series) - 1);
\* entry j of the code is entry j + 1 of the TLA+ sequence.
get_mean_shift_series(time_series, policy) ==
  [k \in 1..(Len(time_series) - 1) |-> compute_mean_shift(time_series, k - 1, policy)]

\* ------------------------------------------------------ permutation test
\* np.random.permutation(z_score_series) for one outcome perm of the
\* generator: a bijection on the positions of the series.
Permute(series, perm) == [k \in 1..Len(series) |-> series[perm[k]]]

\* count_trial with ">=" where line 131 has ">".
count_trial_nonstrict(counts, ms, permuted, policy) ==
  LET mean_shift_permuted_series == get_mean_shift_series(permuted, policy)
  IN  [x \in 1..Len(mean_shift_permuted_series) |->
         IF IsNaN(ms[x]) THEN counts[x] + 1
         ELSE IF Geq(mean_shift_permuted_series[x], ms[x])
              THEN counts[x] + 1
              ELSE counts[x]]

\* One pass of the loop body of get_p_value_series (lines 121-132): the
\* counters after the trial whose permuted series is permuted.
count_trial(counts, ms, permuted, policy) ==
  LET mean_shift_permuted_series == get_mean_shift_series(permuted, policy)
  IN  [x \in 1..Len(mean_shift_permuted_series) |->
         IF IsNaN(ms[x]) THEN counts[x] + 1
         ELSE IF Gt(mean_shift_permuted_series[x], ms[x])
              THEN counts[x] + 1
              ELSE counts[x]]

\* p_value_series /= n_samples (line 133); with n_samples = 0 every entry
\* is 0.0 / 0 = nan.
divide_counts(counts, n) == [x \in 1..Len(counts) |-> Rat(counts[x], n)]

\* ------------------------------------------------------ detect_change_point
\* Positions (from 1) of the entries of z that pass "if z_score_series[i]".
RECURSIVE kept_positions(_, _)
kept_positions(z, i) ==
  IF i > Len(z) THEN << >>
  ELSE IF Truthy(z[i]) THEN <<i>> \o kept_positions(z, i + 1)
       ELSE kept_positions(z, i + 1)

\* line 143
compact_labels(time_slice_labels, z) ==
  LET pos == kept_positions(z, 1)
  IN  [k \in 1..Len(pos) |-> time_slice_labels[pos[k]]]

\* line 147
compact_z(z) == TruthyOnly(z)

\* lines 154-156: p-values at positions whose z-score is below gamma become 1.
apply_gamma_gate(p, z, gamma) ==
  [i \in 1..Len(p) |-> IF Lt(z[i], gamma) THEN One ELSE p[i]]

\* numpy's min of a non-empty float array: nan if any entry is nan.
RECURSIVE np_min(_)
np_min(p) ==
  IF Len(p) = 1 THEN p[1]
  ELSE LET m == np_min(Tail(p))
       IN  IF IsNaN(p[1]) \/ IsNaN(m) THEN NaN
           ELSE IF Lt(m, p[1]) THEN m ELSE p[1]

\* np.where(p_value_series == min_p_val)[0], ascending (positions from 1).
RECURSIVE where_equal(_, _, _)
where_equal(p, v, i) ==
  IF i > Len(p) THEN << >>
  ELSE IF FloatEq(p[i], v) THEN <<i>> \o where_equal(p, v, i + 1)
       ELSE where_equal(p, v, i + 1)

\* Python's max(..., key=lambda x: x[1]) over [(i, mean_shift_series[i])]:
\* the running maximum is replaced only by a strictly greater key.
RECURSIVE max_by_shift(_, _, _)
max_by_shift(best, rest, mean_shift_series) ==
  IF Len(rest) = 0 THEN best
  ELSE IF Gt(mean_shift_series[Head(rest)], mean_shift_series[best])
       THEN max_by_shift(Head(rest), Tail(rest), mean_shift_series)
       ELSE max_by_shift(best, Tail(rest), mean_shift_series)

\* line 171 with "<=" for "<".
below_threshold_nonstrict(min_p_val, p_value_threshold) ==
  Geq(p_value_threshold, min_p_val)

\* line 171
below_threshold(min_p_val, p_value_threshold) == Lt(min_p_val, p_value_threshold)

\* lines 158-185, after the gate.  The outcome is [st |-> "return", val |-> r]
\* with r a result tuple or None, or [st |-> "raise", ...]: with an empty
\* p_value_series, min() raises ValueError, the handler (lines 162-167) only
\* prints, and line 171 then reads the unassigned local min_p_val
\* (UnboundLocalError), which nothing in the function catches.
select_change_point(w, labels, z, mean_shift_series, p_value_series, p_threshold) ==
  IF Len(p_value_series) = 0
  THEN [st |-> "raise", val |-> None]
  ELSE LET min_p_val == np_min(p_value_series)
       IN  IF below_threshold(min_p_val, p_threshold)
           THEN LET indices == where_equal(p_value_series, min_p_val, 1)
                    change_point == max_by_shift(Head(indices), Tail(indices),
                                                 mean_shift_series)
                IN  [st |-> "return",
                     val |-> <<w, labels[change_point], min_p_val,
                               mean_shift_series[change_point], z[change_point]>>]
           ELSE [st |-> "return", val |-> None]

\* ------------------------------------------------------------------ state
VARIABLES
  \* arguments of detect_change_point / options of the run
  word, z_score_series, time_slice_labels, n_samples, p_value_threshold,
  gamma_threshold, compare_to,
  \* how np.random.permutation behaves in this run: "random" (any
  \* permutation at every trial) or "exhaustive" (the run draws every
  \* permutation of the series exactly once)
  rng,
  \* locals of detect_change_point and get_p_value_series
  pc, notNone_time_slice_labels, z_compact, mean_shift_series, p_count,
  i_sample, p_value_series, result,
  \* the values permuted_z_score_series (line 121) has taken so far, as a bag
  \* (the counters are sums, so the order of the trials is immaterial)
  drawn,
  \* the time-series builder loop (lines 320-350)
  model_paths, align_to, bi, time_slice_labels_used, dist_calls,
  \* the per-word loop, the ranking and the report (lines 364-392)
  dict_of_z_score_dicts, todo, results, collected, rank_by, n_best, report, run

detVars == <<word, z_score_series, time_slice_labels, n_samples, p_value_threshold,
             gamma_threshold, compare_to, rng, pc, notNone_time_slice_labels,
             z_compact, mean_shift_series, p_count, i_sample, p_value_series,
             result, drawn>>

bldVars == <<model_paths, align_to, bi, dist_calls>>

drvVars == <<dict_of_z_score_dicts, todo, results, collected, rank_by, n_best,
             report, run>>

vars == <<detVars, bldVars, time_slice_labels_used, drvVars>>

\* ------------------------------------------------------------ input sets
Policies == {"first", "last", "previous"}
ZValues == {None, NaN, Zero, Rat(-1, 1), Rat(2, 1)}
PValueThresholds == {Rat(1, 20), Rat(1, 1)}
Gammas == {Rat(-2, 1), Zero}
SeriesUpTo(n) == UNION {[1..k -> ZValues] : k \in 0..n}

\* The i-th time-slice label ("2012_01", "2012_02", ... as numbers).
TimeSlice(i) == 201200 + i
TimeSlices(n) == [i \in 1..n |-> TimeSlice(i)]

\* The spec's end-to-end scenario: z-scores 0.1, 0.2, 5.0, 5.1.
ScenarioSeries == <<Rat(1, 10), Rat(1, 5), Rat(5, 1), Rat(51, 10)>>

RECURSIVE Fact(_)
Fact(n) == IF n <= 1 THEN 1 ELSE n * Fact(n - 1)

\* The k-th (k from 0) permutation of items in lexicographic order.
RECURSIVE NthPermutation(_, _)
NthPermutation(k, items) ==
  IF Len(items) = 0 THEN << >>
  ELSE LET f == Fact(Len(items) - 1)
           idx == (k \div f) + 1
           rest == SubSeq(items, 1, idx - 1) \o SubSeq(items, idx + 1, Len(items))
       IN  <<items[idx]>> \o NthPermutation(k % f, rest)

\* The outcomes np.random.permutation may produce at trial i (from 0).
permutation_outcomes(mode, i, n) ==
  IF mode = "random" THEN Permutations(1..n)
  ELSE {NthPermutation(i, [k \in 1..n |-> k])}

\* ------------------------------------------------------- detector actions
IdleLocals ==
  /\ notNone_time_slice_labels = << >>
  /\ z_compact = << >>
  /\ mean_shift_series = << >>
  /\ p_count = << >>
  /\ i_sample = 0
  /\ p_value_series = << >>
  /\ result = None
  /\ drawn = EmptyBag

IdleBuilder ==
  /\ model_paths = << >>
  /\ align_to = "last"
  /\ bi = 0
  /\ dist_calls = << >>

IdleDriver ==
  /\ dict_of_z_score_dicts = << >>
  /\ todo = {}
  /\ results = << >>
  /\ collected = << >>
  /\ rank_by = "p_value"
  /\ n_best = 0
  /\ report = << >>
  /\ run = "idle"

InitDetect ==
  /\ \/ /\ z_score_series \in SeriesUpTo(MaxLen)
        /\ n_samples \in 0..MaxSamples
        /\ rng = "random"
     \/ /\ z_score_series = ScenarioSeries
        /\ n_samples = Fact(Len(ScenarioSeries))
        /\ rng = "exhaustive"
  /\ word = "cat"
  /\ time_slice_labels = TimeSlices(Len(z_score_series))
  /\ p_value_threshold \in PValueThresholds
  /\ gamma_threshold \in Gammas
  /\ compare_to \in Policies
  /\ pc = "call"
  /\ IdleLocals
  /\ IdleBuilder
  /\ time_slice_labels_used = << >>
  /\ IdleDriver

\* lines 143-149 (and the return of line 187 when nothing is kept)
Compact ==
  /\ pc = "call"
  /\ notNone_time_slice_labels' = compact_labels(time_slice_labels, z_score_series)
  /\ IF Len(notNone_time_slice_labels') = 0
     THEN /\ pc' = "returned"
          /\ UNCHANGED <<z_compact, mean_shift_series, p_count>>
     ELSE /\ z_compact' = compact_z(z_score_series)
          /\ mean_shift_series' = get_mean_shift_series(z_compact', compare_to)
          /\ p_count' = [x \in 1..Len(mean_shift_series') |-> 0]
          /\ pc' = "permute"
  /\ UNCHANGED <<word, z_score_series, time_slice_labels, n_samples, p_value_threshold,
                 gamma_threshold, compare_to, rng, i_sample, p_value_series, result, drawn>>
  /\ UNCHANGED <<bldVars, time_slice_labels_used, drvVars>>

\* lines 120-132: one trial of the permutation test
Trial ==
  /\ pc = "permute"
  /\ i_sample < n_samples
  /\ \E perm \in permutation_outcomes(rng, i_sample, Len(z_compact)) :
       LET permuted_z_score_series == Permute(z_compact, perm)
       IN  /\ p_count' = count_trial(p_count, mean_shift_series,
                                     permuted_z_score_series, compare_to)
           /\ drawn' = drawn (+) SetToBag({permuted_z_score_series})
  /\ i_sample' = i_sample + 1
  /\ UNCHANGED <<word, z_score_series, time_slice_labels, n_samples, p_value_threshold,
                 gamma_threshold, compare_to, rng, pc, notNone_time_slice_labels,
                 z_compact, mean_shift_series, p_value_series, result>>
  /\ UNCHANGED <<bldVars, time_slice_labels_used, drvVars>>

\* line 133, after the last trial
Divide ==
  /\ pc = "permute"
  /\ i_sample = n_samples
  /\ p_value_series' = divide_counts(p_count, n_samples)
  /\ pc' = "gate"
  /\ UNCHANGED <<word, z_score_series, time_slice_labels, n_samples, p_value_threshold,
                 gamma_threshold, compare_to, rng, notNone_time_slice_labels,
                 z_compact, mean_shift_series, p_count, i_sample, result, drawn>>
  /\ UNCHANGED <<bldVars, time_slice_labels_used, drvVars>>

\* lines 154-156
Gate ==
  /\ pc = "gate"
  /\ p_value_series' = apply_gamma_gate(p_value_series, z_compact, gamma_threshold)
  /\ pc' = "select"
  /\ UNCHANGED <<word, z_score_series, time_slice_labels, n_samples, p_value_threshold,
                 gamma_threshold, compare_to, rng, notNone_time_slice_labels,
                 z_compact, mean_shift_series, p_count, i_sample, result, drawn>>
  /\ UNCHANGED <<bldVars, time_slice_labels_used, drvVars>>

\* lines 158-185
Select ==
  /\ pc = "select"
  /\ LET out == select_change_point(word, notNone_time_slice_labels, z_compact,
                                    mean_shift_series, p_value_series,
                                    p_value_threshold)
     IN  /\ pc' = IF out.st = "raise" THEN "raised" ELSE "returned"
         /\ result' = out.val
  /\ UNCHANGED <<word, z_score_series, time_slice_labels, n_samples, p_value_threshold,
                 gamma_threshold, compare_to, rng, notNone_time_slice_labels,
                 z_compact, mean_shift_series, p_count, i_sample, p_value_series, drawn>>
  /\ UNCHANGED <<bldVars, time_slice_labels_used, drvVars>>

NextDetect == Compact \/ Trial \/ Divide \/ Gate \/ Select

Spec == InitDetect /\ [][NextDetect]_vars

\* ------------------------------------------- get_mean_shift_series alone
\* A direct call of get_mean_shift_series(time_series, compare_to) on a
\* series of floats (no None: the caller has compacted it).
FloatSeriesUpTo(n) == UNION {[1..k -> ZValues \ {None}] : k \in 0..n}

InitMeanShift ==
  /\ z_score_series \in FloatSeriesUpTo(MaxLen)
  /\ compare_to \in Policies
  /\ pc = "ms_call"
  /\ word = "cat"
  /\ time_slice_labels = << >>
  /\ n_samples = 0
  /\ p_value_threshold = One
  /\ gamma_threshold = Zero
  /\ rng = "random"
  /\ IdleLocals
  /\ IdleBuilder
  /\ time_slice_labels_used = << >>
  /\ IdleDriver

\* line 110
MeanShiftCall ==
  /\ pc = "ms_call"
  /\ mean_shift_series' = get_mean_shift_series(z_score_series, compare_to)
  /\ pc' = "ms_returned"
  /\ UNCHANGED <<word, z_score_series, time_slice_labels, n_samples, p_value_threshold,
                 gamma_threshold, compare_to, rng, notNone_time_slice_labels,
                 z_compact, p_count, i_sample, p_value_series, result, drawn>>
  /\ UNCHANGED <<bldVars, time_slice_labels_used, drvVars>>

SpecMeanShift == InitMeanShift /\ [][MeanShiftCall]_vars

\* ------------------------------------------------- time-series builder
\* seq[i] with Python's indexing: i counted from 0, negative i from the end.
PyIndex(seq, i) == IF i < 0 THEN seq[Len(seq) + i + 1] ELSE seq[i + 1]

\* lines 325-329 without the align_to == 'previous' clause of line 325.
skip_snapshot_compare_only(i, n, compare, align) ==
  \/ i = 0 /\ (compare = "previous" \/ compare = "first")
  \/ i = n - 1 /\ compare = "last"

\* lines 325-329: the conditions under which snapshot i is skipped.
skip_snapshot(i, n, compare, align) ==
  \/ i = 0 /\ (compare = "previous" \/ align = "previous" \/ compare = "first")
  \/ i = n - 1 /\ compare = "last"

\* lines 333-338 and 341-346: the reference snapshot of snapshot i.
reference_path(policy, paths, i) ==
  IF policy = "first" THEN PyIndex(paths, 0)
  ELSE IF policy = "last" THEN PyIndex(paths, -1)
  ELSE PyIndex(paths, i - 1)

\* Snapshot k (from 0) is identified by its path, here the number k.
InitBuilder ==
  /\ \E n \in 1..MaxSnapshots :
       /\ model_paths = [k \in 1..n |-> k - 1]
       /\ time_slice_labels = TimeSlices(n)
  /\ align_to \in Policies
  /\ compare_to \in Policies
  /\ bi = 0
  /\ time_slice_labels_used = << >>
  /\ dist_calls = << >>
  /\ word = ""
  /\ z_score_series = << >>
  /\ n_samples = 0
  /\ p_value_threshold = One
  /\ gamma_threshold = Zero
  /\ rng = "random"
  /\ pc = "idle"
  /\ IdleLocals
  /\ IdleDriver

\* lines 325-329: "continue"
SkipSnapshot ==
  /\ bi < Len(model_paths)
  /\ skip_snapshot(bi, Len(model_paths), compare_to, align_to)
  /\ bi' = bi + 1
  /\ UNCHANGED <<model_paths, align_to, dist_calls, time_slice_labels_used>>
  /\ UNCHANGED <<detVars, drvVars>>

\* lines 331-350: the distances of snapshot bi against its references
IncludeSnapshot ==
  /\ bi < Len(model_paths)
  /\ ~skip_snapshot(bi, Len(model_paths), compare_to, align_to)
  /\ dist_calls' = Append(dist_calls,
       [model_path |-> PyIndex(model_paths, bi),
        alignment_reference_model_path |-> reference_path(align_to, model_paths, bi),
        comparison_reference_model_path |-> reference_path(compare_to, model_paths, bi)])
  /\ time_slice_labels_used' = Append(time_slice_labels_used,
                                      PyIndex(time_slice_labels, bi))
  /\ bi' = bi + 1
  /\ UNCHANGED <<model_paths, align_to>>
  /\ UNCHANGED <<detVars, drvVars>>

SpecBuilder == InitBuilder /\ [][SkipSnapshot \/ IncludeSnapshot]_vars

\* ------------------------------------------- per-word loop and ranking
\* A result is the tuple (word, time_slice, p_value, mean_shift, z_score).
\* The sort keys of lines 374, 376/379 and 380.
sort_key(x, key) ==
  IF key = "neg_z_score" THEN Neg(x[5])
  ELSE IF key = "neg_mean_shift" THEN Neg(x[4])
  ELSE x[3]

\* Python's sorted(xs, key=...): a stable sort, ascending in the key.
RECURSIVE insert_stable(_, _, _)
insert_stable(x, sorted, key) ==
  IF Len(sorted) = 0 THEN <<x>>
  ELSE IF Lt(sort_key(x, key), sort_key(Head(sorted), key)) THEN <<x>> \o sorted
       ELSE <<Head(sorted)>> \o insert_stable(x, Tail(sorted), key)

RECURSIVE py_sorted(_, _)
py_sorted(xs, key) ==
  IF Len(xs) = 0 THEN << >>
  ELSE insert_stable(xs[Len(xs)], py_sorted(SubSeq(xs, 1, Len(xs) - 1), key), key)

\* lines 373-380 with the mean-shift pre-sort of line 379 left out.
rank_results_single_sort(rs, key) ==
  IF key = "z_score" THEN py_sorted(rs, "neg_z_score")
  ELSE IF key = "mean_shift" THEN py_sorted(rs, "neg_mean_shift")
  ELSE py_sorted(rs, "p_value")

\* lines 373-380
rank_results(rs, key) ==
  IF key = "z_score" THEN py_sorted(rs, "neg_z_score")
  ELSE IF key = "mean_shift" THEN py_sorted(rs, "neg_mean_shift")
  ELSE py_sorted(py_sorted(rs, "neg_mean_shift"), "p_value")

\* results[:n_best] for n_best >= 0
py_prefix(xs, n) == SubSeq(xs, 1, IF n < Len(xs) THEN n ELSE Len(xs))

RankKeys == {"p_value", "z_score", "mean_shift"}
WordNames == <<"ant", "bee", "cat", "dog", "eel">>
Vocabulary == {WordNames[i] : i \in 1..MaxWords}

\* The z-score series a word may have over the three time slices used by
\* the per-word loop.
WordSeries ==
  {<<Rat(2, 1), Rat(2, 1), Rat(-1, 1)>>,
   <<Rat(-1, 1), Rat(2, 1), Rat(2, 1)>>,
   <<Rat(2, 1), Rat(-1, 1), Rat(2, 1)>>,
   <<None, Rat(2, 1), Rat(-1, 1)>>,
   <<None, Rat(2, 1), None>>}
DriverSampleCounts == {0, 2}

InitDriver ==
  /\ time_slice_labels_used = TimeSlices(3)
  /\ \E zs \in [Vocabulary -> WordSeries] :
       dict_of_z_score_dicts =
         [time_slice \in {TimeSlice(t) : t \in 1..3} |->
            [w \in Vocabulary |-> zs[w][CHOOSE t \in 1..3 : TimeSlice(t) = time_slice]]]
  /\ todo = Vocabulary
  /\ n_samples \in DriverSampleCounts
  /\ p_value_threshold \in PValueThresholds
  /\ gamma_threshold \in Gammas
  /\ compare_to \in Policies
  /\ results = << >>
  /\ collected = << >>
  /\ rank_by = "p_value"
  /\ n_best = 0
  /\ report = << >>
  /\ run = "loop"
  /\ word = ""
  /\ z_score_series = << >>
  /\ time_slice_labels = << >>
  /\ rng = "random"
  /\ pc = "idle"
  /\ IdleLocals
  /\ IdleBuilder

\* lines 365-368: the next word of "for (i, word) in enumerate(vocab)" (a set
\* is iterated in an arbitrary order), its series assembled across the slices
\* used, and the call of detect_change_point, which the detector actions run.
NextWord ==
  /\ run = "loop"
  /\ pc = "idle"
  /\ \E w \in todo :
       /\ word' = w
       /\ todo' = todo \ {w}
       /\ z_score_series' = [t \in 1..Len(time_slice_labels_used) |->
                               dict_of_z_score_dicts[time_slice_labels_used[t]][w]]
  /\ time_slice_labels' = time_slice_labels_used
  /\ pc' = "call"
  /\ notNone_time_slice_labels' = << >>
  /\ z_compact' = << >>
  /\ mean_shift_series' = << >>
  /\ p_count' = << >>
  /\ i_sample' = 0
  /\ p_value_series' = << >>
  /\ result' = None
  /\ drawn' = EmptyBag
  /\ UNCHANGED <<n_samples, p_value_threshold, gamma_threshold, compare_to, rng>>
  /\ UNCHANGED <<dict_of_z_score_dicts, results, collected, rank_by, n_best,
                 report, run>>
  /\ UNCHANGED <<bldVars, time_slice_labels_used>>

\* lines 369-371: detect_change_point returned; a tuple is appended, None is not.
Collect ==
  /\ run = "loop"
  /\ pc = "returned"
  /\ results' = IF result # None THEN Append(results, result) ELSE results
  /\ pc' = "idle"
  /\ UNCHANGED <<word, z_score_series, time_slice_labels, n_samples,
                 p_value_threshold, gamma_threshold, compare_to, rng,
                 notNone_time_slice_labels, z_compact, mean_shift_series, p_count,
                 i_sample, p_value_series, result, drawn>>
  /\ UNCHANGED <<dict_of_z_score_dicts, todo, collected, rank_by, n_best, report,
                 run>>
  /\ UNCHANGED <<bldVars, time_slice_labels_used>>

\* line 368 when detect_change_point raises: nothing in the loop or around it
\* catches the exception, so the program ends with a traceback and lines
\* 373-392 (ranking, report, log) never run.
Abort ==
  /\ run = "loop"
  /\ pc = "raised"
  /\ run' = "aborted"
  /\ UNCHANGED <<dict_of_z_score_dicts, todo, results, collected, rank_by, n_best,
                 report>>
  /\ UNCHANGED <<detVars, bldVars, time_slice_labels_used>>

\* lines 373-392, after the loop: rank the results and write the first
\* n_best of them.  rank_by and n_best are options of the run, first read here.
RankAndReport ==
  /\ run = "loop"
  /\ pc = "idle"
  /\ todo = {}
  /\ \E key \in RankKeys, n \in 0..MaxNBest :
       /\ rank_by' = key
       /\ n_best' = n
       /\ collected' = results
       /\ results' = rank_results(results, key)
       /\ report' = py_prefix(results', n)
  /\ run' = "done"
  /\ UNCHANGED <<dict_of_z_score_dicts, todo>>
  /\ UNCHANGED <<detVars, bldVars, time_slice_labels_used>>

NextDriver == NextWord \/ NextDetect \/ Collect \/ Abort \/ RankAndReport

SpecDriver == InitDriver /\ [][NextDriver]_vars

\* ----------------------------------------------------------------- claims
Defined(v) == ~IsNone(v)
DefinedEntries(z) == SelectSeq(z, Defined)

RECURSIVE DefinedPositions(_, _)
DefinedPositions(z, i) ==
  IF i > Len(z) THEN << >>
  ELSE IF Defined(z[i]) THEN <<i>> \o DefinedPositions(z, i + 1)
       ELSE DefinedPositions(z, i + 1)

DefinedLabels(labels, z) ==
  LET pos == DefinedPositions(z, 1) IN [k \in 1..Len(pos) |-> labels[pos[k]]]

Finished == pc \in {"returned", "raised"}

\* m is the minimum of the float series p (no minimum if p holds a NaN).
IsMinimumOf(m, p) ==
  /\ \E i \in 1..Len(p) : p[i] = m
  /\ \A i \in 1..Len(p) : Geq(p[i], m)

\* C1: when detect_change_point has finished on a word whose compacted series
\* is non-empty, a result was emitted iff the minimum of the gated p-value
\* series is strictly below the threshold; the emitted tuple is (word,
\* label[s], min p, mean_shift[s], z[s]) for an index s at the minimum whose
\* mean-shift is >= that of every index tied with it.
C1_Selection ==
  (Finished /\ Len(notNone_time_slice_labels) > 0) =>
    LET p == p_value_series
        ms == mean_shift_series
    IN  /\ (result # None) <=>
             (\E i \in 1..Len(p) :
                IsMinimumOf(p[i], p) /\ Lt(p[i], p_value_threshold))
        /\ (result # None) =>
             \E s \in 1..Len(p) :
               /\ IsMinimumOf(p[s], p)
               /\ \A i \in 1..Len(p) : FloatEq(p[i], p[s]) => Geq(ms[s], ms[i])
               /\ result = <<word, notNone_time_slice_labels[s], p[s], ms[s],
                             z_compact[s]>>

\* C1 witness: a result whose index s was preferred over an earlier index
\* tied at the minimum p-value because its mean-shift is larger.
C1_Witness ==
  /\ pc = "returned"
  /\ result # None
  /\ \E i, s \in 1..Len(p_value_series) :
       /\ i < s
       /\ FloatEq(p_value_series[i], p_value_series[s])
       /\ p_value_series[s] = result[3]
       /\ Lt(mean_shift_series[i], mean_shift_series[s])
       /\ result[2] = notNone_time_slice_labels[s]
       /\ result[4] = mean_shift_series[s]

\* The number of trials so far whose mean-shift at split j (from 1) is
\* strictly greater than the original mean-shift at j.
Exceeding(j) ==
  LET hits == {e \in BagToSet(drawn) :
                 Gt(get_mean_shift_series(e, compare_to)[j], mean_shift_series[j])}
  IN  BagCardinality([e \in hits |-> CopiesIn(e, drawn)])

\* C2: for N >= 1, after the N trials the p-value at each split index j is
\* (number of the N permuted series whose mean-shift at j strictly exceeds the
\* original's) / N, or 1 when the original mean-shift at j is NaN; every p-value
\* lies in [0, 1].
C2_PermutationTest ==
  (pc = "gate" /\ n_samples >= 1) =>
    /\ BagCardinality(drawn) = n_samples
    /\ Len(p_value_series) = Len(mean_shift_series)
    /\ \A j \in 1..Len(p_value_series) :
         /\ p_value_series[j] =
              IF IsNaN(mean_shift_series[j]) THEN One
              ELSE Rat(Exceeding(j), n_samples)
         /\ Geq(p_value_series[j], Zero)
         /\ Geq(One, p_value_series[j])

\* C2 witness: two trials, one exceeding the original at some split and one
\* whose mean-shift there equals the original's and is not counted.
C2_Witness ==
  /\ pc = "gate"
  /\ n_samples = 2
  /\ \E j \in 1..Len(p_value_series) :
       /\ p_value_series[j] = Rat(1, 2)
       /\ \E e \in BagToSet(drawn) :
            get_mean_shift_series(e, compare_to)[j] = mean_shift_series[j]

\* C4: after compaction the compacted series holds exactly the defined
\* (non-None) entries, a zero included, in order, and the compacted labels
\* are the labels at those same positions.
C4_CompactionKeepsDefined ==
  (pc # "call") =>
    /\ notNone_time_slice_labels = DefinedLabels(time_slice_labels, z_score_series)
    /\ (Len(notNone_time_slice_labels) > 0 =>
          z_compact = DefinedEntries(z_score_series))

GammaProbes == Gammas \cup {Rat(1, 1), Rat(3, 1)}

\* The two statements of C5 about the gate, for thresholds g1 <= g2 applied to
\* the p-value series p of the same run.
GateMonotone(p, z, g1, g2) ==
  \A j \in 1..Len(p) :
    LET a == apply_gamma_gate(p, z, g1)[j]
        b == apply_gamma_gate(p, z, g2)[j]
    IN  /\ Geq(b, a)
        /\ b = (IF Lt(z[j], g2) THEN One ELSE p[j])

\* C5: for the same compacted series and the same draws, and gamma1 <= gamma2,
\* every gated p-value under gamma2 is >= the one under gamma1, and the gate
\* only sets p-values to 1 at indices whose z-score is below gamma.
C5_GammaMonotone ==
  (pc = "gate") =>
    \A g1, g2 \in GammaProbes :
      Geq(g2, g1) => GateMonotone(p_value_series, z_compact, g1, g2)

\* C5 on the runs that draw at least one sample (holds; see C11 for N = 0).
C5_GammaMonotoneSampled ==
  (pc = "gate" /\ n_samples >= 1) =>
    \A g1, g2 \in GammaProbes :
      Geq(g2, g1) => GateMonotone(p_value_series, z_compact, g1, g2)

ScenarioRun(policy) ==
  /\ z_score_series = ScenarioSeries
  /\ rng = "exhaustive"
  /\ compare_to = policy
  /\ gamma_threshold = Zero
  /\ p_value_threshold = Rat(1, 20)

C8_SingleEntryReturnsNone ==
  (Len(DefinedEntries(z_score_series)) <= 1) =>
    /\ pc # "raised"
    /\ mean_shift_series = << >>
    /\ p_value_series = << >>
    /\ result = None

\* mean-shift at split j (from 0) with both means over every value of the slice
PlainMeanShift(series, j, policy) ==
  LET after == np_mean(SubSeq(series, j + 2, Len(series)))
      upto == np_mean(SubSeq(series, 1, j + 1))
  IN  IF policy = "first" THEN Sub(after, upto) ELSE Sub(upto, after)

\* C3: get_mean_shift_series on a series of length L returns L - 1 entries,
\* entry j being mean(series[j+1:]) - mean(series[:j+1]) under 'first' and the
\* opposite difference under 'last'/'previous', each mean over every value of
\* its slice (a zero included); the 'first' series negates the other one.
C3_MeanShiftSeries ==
  (pc = "ms_returned") =>
    LET L == Len(z_score_series)
        other == IF compare_to = "first" THEN "last" ELSE "first"
    IN  /\ Len(mean_shift_series) = (IF L = 0 THEN 0 ELSE L - 1)
        /\ \A k \in 1..Len(mean_shift_series) :
             /\ mean_shift_series[k] = PlainMeanShift(z_score_series, k - 1, compare_to)
             /\ mean_shift_series[k] =
                  Neg(get_mean_shift_series(z_score_series, other)[k])

\* C3 restricted to series without a zero entry (holds).
C3_MeanShiftSeriesNoZero ==
  (\A k \in 1..Len(z_score_series) : z_score_series[k] # Zero) => C3_MeanShiftSeries

BuilderDone == run = "idle" /\ pc = "idle" /\ Len(model_paths) >= 2 /\ bi = Len(model_paths)

\* The snapshots (from 0) that got a time-series entry.
IncludedSnapshots == {dist_calls[k].model_path : k \in 1..Len(dist_calls)}

ReferencesResolved ==
  \A k \in 1..Len(dist_calls) :
    LET c == dist_calls[k]
        i == c.model_path
        last == Len(model_paths) - 1
    IN  /\ time_slice_labels_used[k] = TimeSlice(i + 1)
        /\ c.comparison_reference_model_path =
             (IF compare_to = "first" THEN 0 ELSE IF compare_to = "last" THEN last ELSE i - 1)
        /\ c.alignment_reference_model_path =
             (IF align_to = "first" THEN 0 ELSE IF align_to = "last" THEN last ELSE i - 1)

\* C10 as stated: with at least two snapshots, the only snapshot left out is
\* the one that is its own comparison reference, so the series has one entry
\* fewer than there are snapshots, and each included snapshot is compared with
\* and aligned to snapshot 0 / the last / the previous one by policy.
C10_EligibilityAsStated ==
  BuilderDone =>
    LET n == Len(model_paths)
        own == IF compare_to = "last" THEN n - 1 ELSE 0
    IN  /\ IncludedSnapshots = (0..(n - 1)) \ {own}
        /\ Len(time_slice_labels_used) = n - 1
        /\ ReferencesResolved

\* C10 amended: the last snapshot is left out under compare_to = last, and the
\* first snapshot under compare_to = first or previous and also under
\* align_to = previous; the series has one entry fewer than there are
\* snapshots, or two fewer when compare_to = last and align_to = previous;
\* references are resolved as stated.
C10_EligibilityAmended ==
  BuilderDone =>
    LET n == Len(model_paths)
        out == (IF compare_to = "last" THEN {n - 1} ELSE {0})
                 \cup (IF align_to = "previous" THEN {0} ELSE {})
    IN  /\ IncludedSnapshots = (0..(n - 1)) \ out
        /\ Len(dist_calls) = n - Cardinality(out)
        /\ Len(time_slice_labels_used) =
             (IF compare_to = "last" /\ align_to = "previous" THEN n - 2 ELSE n - 1)
        /\ ReferencesResolved

\* C10 witness: compare_to = last with align_to = previous on three or more
\* snapshots, where both the first and the last snapshot were left out.
C10_Witness ==
  /\ BuilderDone
  /\ Len(model_paths) >= 3
  /\ compare_to = "last"
  /\ align_to = "previous"
  /\ Len(time_slice_labels_used) = Len(model_paths) - 2

\* The order the report must have under the rank key.
RankedBy(rs, key) ==
  \A i, j \in 1..Len(rs) :
    i < j =>
      IF key = "z_score" THEN Geq(rs[i][5], rs[j][5])
      ELSE IF key = "mean_shift" THEN Geq(rs[i][4], rs[j][4])
      ELSE \/ Lt(rs[i][3], rs[j][3])
           \/ FloatEq(rs[i][3], rs[j][3]) /\ Geq(rs[i][4], rs[j][4])

\* C6: after ranking, the results (the same results as collected, one per
\* word) are ordered by p-value ascending and, at equal p-value, by mean-shift
\* descending under rank key p_value, by z-score / mean-shift descending under
\* the other keys; the report is exactly the first n_best of them.
C6_Ranking ==
  (run = "done") =>
    /\ Len(results) = Len(collected)
    /\ {results[i] : i \in 1..Len(results)} = {collected[i] : i \in 1..Len(collected)}
    /\ RankedBy(results, rank_by)
    /\ Len(report) = (IF n_best < Len(results) THEN n_best ELSE Len(results))
    /\ \A k \in 1..Len(report) : report[k] = results[k]

\* C6 witness: under rank key p_value two results tied in p-value were
\* collected in ascending mean-shift order, ranking exchanged them, and the
\* report was cut to the first one.
C6_Witness ==
  /\ run = "done"
  /\ rank_by = "p_value"
  /\ Len(results) = 2
  /\ FloatEq(results[1][3], results[2][3])
  /\ Gt(results[1][4], results[2][4])
  /\ collected = <<results[2], results[1]>>
  /\ n_best = 1
  /\ report = <<results[1]>>

\* C9: a failure of detect_change_point on one word never ends the run: the
\* loop goes on to the other words and the report is written.
C9_FailureIsolation == run # "aborted"

\* Split indices (from 1) that the gamma gate leaves alone.
Ungated == {j \in 1..Len(p_value_series) : ~Lt(z_compact[j], gamma_threshold)}

\* C11: with N = 0 get_p_value_series yields p-value 0 at every split index
\* and never an undefined (0/0) one, so that, the threshold being positive,
\* detect_change_point emits a result for the ungated index of largest
\* mean-shift whenever there is an ungated index.
C11_ZeroSamples ==
  (n_samples = 0) =>
    /\ (pc = "gate") =>
         \A j \in 1..Len(p_value_series) : p_value_series[j] = Zero
    /\ (pc \in {"gate", "select", "returned"}) =>
         \A j \in 1..Len(p_value_series) : ~IsNaN(p_value_series[j])
    /\ (Finished /\ Ungated # {} /\ Gt(p_value_threshold, Zero)) =>
         /\ result # None
         /\ \E s \in Ungated :
              /\ \A i \in Ungated : Geq(mean_shift_series[s], mean_shift_series[i])
              /\ result = <<word, notNone_time_slice_labels[s], Zero,
                            mean_shift_series[s], z_compact[s]>>

\* What the program does with N = 0 (holds): every p-value is NaN after the
\* division, the gate turns some into 1, and no result is ever emitted.
C11_ZeroSamplesUndefined ==
  (n_samples = 0) =>
    /\ (pc = "gate") =>
         \A j \in 1..Len(p_value_series) : IsNaN(p_value_series[j])
    /\ (pc \in {"select", "returned"}) =>
         \A j \in 1..Len(p_value_series) :
           p_value_series[j] = (IF j \in Ungated THEN NaN ELSE One)
    /\ Finished => result = None

\* A finished N = 0 run with a positive threshold and an ungated split index.
C11_ZeroSamplesReached ==
  /\ n_samples = 0
  /\ pc = "returned"
  /\ Ungated # {}
  /\ Gt(p_value_threshold, Zero)

====
